---- MODULE Spec2Model ----
(***************************************************************************)
(* A model of ghidra-dark: the installer (install.py main), the theme      *)
(* bundle handling (flatlaf.py FlatLaf.install / FlatLaf.remove) and the   *)
(* preference patching (config_handler.py install_dark_preferences /       *)
(* remove_dark_preferences).                                               *)
(*                                                                         *)
(* The state is the part of the file system the program reads and writes.  *)
(* A text file is a sequence of tokens; the token NL is the newline        *)
(* character, every other token is a piece of text without a newline.      *)
(* A file is NoFile (absent) or File(content).                             *)
(***************************************************************************)
EXTENDS Integers, Sequences, FiniteSets, TLC

VARIABLES
    prefs,      \* <config>/preferences
    prefsBak,   \* <config>/preferences.bak (scratch file of fileinput)
    tools,      \* <config>/tools/<tcd>, one file per name of TCD_LIST
    baks,       \* <config>/tools/<tcd>.bak
    launch,     \* <install>/support/launch.properties
    launchBak,  \* <install>/support/launch.properties.bak
    jars,       \* <install>/Ghidra/patch/flatlaf-*.jar, the two jars
    trace       \* the operations run so far, each with the files before it

vars == <<prefs, prefsBak, tools, baks, launch, launchBak, jars, trace>>

----------------------------------------------------------------------------
(* Bounds *)

MaxLen == 3     \* longest initial preferences file, in tokens
MaxLines == 2   \* most lines of an initial launch.properties
NumTcd == 3     \* how many names of TCD_LIST the model carries
MaxOps == 2     \* operations per behaviour
MaxColors == 1  \* Color objects built per behaviour
AlphaMargin == 3 \* how far below 0 and above 100 the alpha argument goes

----------------------------------------------------------------------------
(* Files and text *)

NoFile == <<>>
File(content) == <<content>>
Exists(f) == f # NoFile
Content(f) == f[1]

NL == "\n"

\* The text `LastLookAndFeel=System` and the text `LastLookAndFeel=Metal`.
System == "LastLookAndFeel=System"
Metal == "LastLookAndFeel=Metal"

\* Tokens whose text contains the substring `flatlaf`: the theme class name
\* FlatLaf.theme and any other text naming a flatlaf class.
theme == "com.formdev.flatlaf.intellijthemes.FlatDraculaIJTheme"
OtherLaf == "com.formdev.flatlaf.FlatDarkLaf"
VMARGS == "VMARGS"
Dswing == "-Dswing.systemlaf"
EQ == "="

HasFlatlaf(line) == \E k \in 1..Len(line) : line[k] \in {theme, OtherLaf}
HasSystem(line) == \E k \in 1..Len(line) : line[k] = System

\* Index of the first NL of s, or 0.
RECURSIVE FirstNL(_, _)
FirstNL(s, k) ==
    IF k > Len(s) THEN 0
    ELSE IF s[k] = NL THEN k
    ELSE FirstNL(s, k + 1)

\* Iterating a text file: the lines of s, each with its terminator; a last
\* line without a terminator is a line too.
RECURSIVE Lines(_)
Lines(s) ==
    IF s = <<>> THEN <<>>
    ELSE LET n == FirstNL(s, 1) IN
         IF n = 0 THEN <<s>>
         ELSE <<SubSeq(s, 1, n)>> \o Lines(SubSeq(s, n + 1, Len(s)))

EndsWithNL(s) == s # <<>> /\ s[Len(s)] = NL

----------------------------------------------------------------------------
(* Tool-configuration documents (tcd_browser.py) *)

\* The names of the tool-configuration files, the primary tool first.
AllTcd == <<"_code_browser.tcd", "_debugger.tcd", "_version _tracking.tool",
            "Version Tracking (DESTINATION TOOL).tool",
            "Version Tracking (SOURCE TOOL).tool">>
TCD_LIST == SubSeq(AllTcd, 1, NumTcd)
TcdNames == {TCD_LIST[k] : k \in 1..Len(TCD_LIST)}

\* A tool document: the option nodes the catalog names (colors) and
\* everything else in the file (other).
DocA == [other |-> "a", colors |-> "light"]
DocB == [other |-> "b", colors |-> "light"]

\* TCDBrowser(tcd_path).update(preferences): every cataloged option takes
\* the catalog's value, every other node is kept.
TCDBrowser_update(doc) == [doc EXCEPT !.colors = "dark"]

----------------------------------------------------------------------------
(* The file system as one value, and the outcome of an operation *)

FS == [prefs |-> prefs, prefsBak |-> prefsBak, tools |-> tools, baks |-> baks,
       launch |-> launch, launchBak |-> launchBak, jars |-> jars]

\* result: "ok", "exit" (sys.exit) or the name of the exception raised;
\* warned: the tool files a logger.warning named; copied: the tool files
\* whose backup was copied (install) or moved back (remove).
\* called: the functions main called, in order.
Outcome(fs, result, warned, copied) ==
    [fs |-> fs, result |-> result, warned |-> warned, copied |-> copied,
     called |-> <<>>]

----------------------------------------------------------------------------
(* config_handler.py *)

\* The loop over TCD_LIST of install_dark_preferences, from index k on.
RECURSIVE InstallLoop(_, _, _, _)
InstallLoop(k, fs, warned, copied) ==
    IF k > Len(TCD_LIST) THEN Outcome(fs, "ok", warned, copied)
    ELSE LET tcd == TCD_LIST[k] IN
         IF Exists(fs.tools[tcd])
         THEN \* shutil.copy(tcd_path, backup_path); TCDBrowser.update
              InstallLoop(k + 1,
                  [fs EXCEPT !.baks[tcd] = fs.tools[tcd],
                             !.tools[tcd] =
                                 File(TCDBrowser_update(Content(fs.tools[tcd])))],
                  warned, copied \cup {tcd})
         ELSE \* shutil.copy raises FileNotFoundError
              IF tcd = "_code_browser.tcd"
              THEN InstallLoop(k + 1, fs, warned \cup {tcd}, copied)
              ELSE Outcome(fs, "FileNotFoundError", warned, copied)

\* install_dark_preferences with the test for the preferences file after
\* the loop over TCD_LIST instead of before it.
install_dark_preferences_late_check(fs) ==
    IF ~Exists(fs.prefs)
    THEN [InstallLoop(1, fs, {}, {}) EXCEPT !.result = "exit"]
    ELSE LET text == Content(fs.prefs)
             fs1 == IF \E k \in 1..Len(Lines(text)) : HasSystem(Lines(text)[k])
                    THEN fs
                    ELSE [fs EXCEPT !.prefs = File(text \o <<System, NL>>)]
         IN InstallLoop(1, fs1, {}, {})

\* install_dark_preferences rewriting the LastLookAndFeel line in place
\* instead of appending a new one.
install_dark_preferences_in_place(fs) ==
    IF ~Exists(fs.prefs) THEN Outcome(fs, "exit", {}, {})
    ELSE LET text == Content(fs.prefs)
             fs1 == [fs EXCEPT !.prefs =
                        File([n \in 1..Len(text) |->
                                 IF text[n] = Metal THEN System ELSE text[n]])]
         IN InstallLoop(1, fs1, {}, {})

install_dark_preferences(fs) ==
    IF ~Exists(fs.prefs) THEN Outcome(fs, "exit", {}, {})
    ELSE LET text == Content(fs.prefs)
             using_system ==
                 \E k \in 1..Len(Lines(text)) : HasSystem(Lines(text)[k])
             fs1 == IF using_system THEN fs
                    ELSE [fs EXCEPT !.prefs = File(text \o <<System, NL>>)]
         IN InstallLoop(1, fs1, {}, {})

\* RemoveLoop without the test for a missing backup: a tool file without
\* .bak is removed like any other, and the rename then finds no backup.
RECURSIVE RemoveLoop_unguarded(_, _, _, _)
RemoveLoop_unguarded(k, fs, warned, copied) ==
    IF k > Len(TCD_LIST) THEN Outcome(fs, "ok", warned, copied)
    ELSE LET tcd == TCD_LIST[k] IN
         IF ~Exists(fs.tools[tcd]) /\ ~Exists(fs.baks[tcd])
         THEN RemoveLoop_unguarded(k + 1, fs, warned, copied)
         ELSE IF ~Exists(fs.tools[tcd])
         THEN Outcome(fs, "FileNotFoundError", warned, copied)
         ELSE IF ~Exists(fs.baks[tcd])
         THEN Outcome([fs EXCEPT !.tools[tcd] = NoFile], "FileNotFoundError",
                      warned, copied)
         ELSE RemoveLoop_unguarded(k + 1,
                  [fs EXCEPT !.tools[tcd] = fs.baks[tcd], !.baks[tcd] = NoFile],
                  warned, copied \cup {tcd})

\* The loop over TCD_LIST of remove_dark_preferences, from index k on.
RECURSIVE RemoveLoop(_, _, _, _)
RemoveLoop(k, fs, warned, copied) ==
    IF k > Len(TCD_LIST) THEN Outcome(fs, "ok", warned, copied)
    ELSE LET tcd == TCD_LIST[k] IN
         IF Exists(fs.tools[tcd]) /\ ~Exists(fs.baks[tcd])
         THEN RemoveLoop(k + 1, fs, warned \cup {tcd}, copied)
         ELSE IF Exists(fs.baks[tcd])
         THEN IF ~Exists(fs.tools[tcd])
              THEN \* os.remove(tcd_path) raises
                   Outcome(fs, "FileNotFoundError", warned, copied)
              ELSE RemoveLoop(k + 1,
                       [fs EXCEPT !.tools[tcd] = fs.baks[tcd],
                                  !.baks[tcd] = NoFile],
                       warned, copied \cup {tcd})
         ELSE RemoveLoop(k + 1, fs, warned, copied)

\* The loop over the lines of preferences of remove_dark_preferences: what
\* the redirected print writes to the new file.
RECURSIVE RestoreLines(_)
RestoreLines(ls) ==
    IF ls = <<>> THEN <<>>
    ELSE (IF HasSystem(Head(ls)) THEN <<>> ELSE Head(ls))
         \o RestoreLines(Tail(ls))

remove_dark_preferences(fs) ==
    IF ~Exists(fs.prefs) THEN Outcome(fs, "exit", {}, {})
    ELSE \* FileInput(inplace=True): the file moves to preferences.bak, the
         \* kept lines go to a new preferences, preferences.bak is deleted
         LET kept == RestoreLines(Lines(Content(fs.prefs)))
             fs1 == [fs EXCEPT !.prefs = File(kept), !.prefsBak = NoFile]
         IN RemoveLoop(1, fs1, {}, {})


----------------------------------------------------------------------------
(* preferences.py *)

\* A hex string is the sequence of its digits, each a number in 0..15.

\* f"{hex_alpha:x}": the hex digits of n in 0..255, without padding.
HexFormat(n) == IF n < 16 THEN <<n>> ELSE <<n \div 16, n % 16>>

\* bytes.fromhex: the bytes of a hex string of even length; a string of odd
\* length raises ValueError.
RECURSIVE fromhex(_)
fromhex(digits) ==
    IF Len(digits) = 0 THEN <<>>
    ELSE <<16 * digits[1] + digits[2]>> \o fromhex(SubSeq(digits, 3, Len(digits)))

\* unpack("i", hex_bytes)[0]: four bytes read as a signed 32-bit integer in
\* the byte order of the host.
unpack_i(hex_bytes, byteorder) ==
    LET b == IF byteorder = "little" THEN hex_bytes
             ELSE <<hex_bytes[4], hex_bytes[3], hex_bytes[2], hex_bytes[1]>>
        top == IF b[4] >= 128 THEN b[4] - 256 ELSE b[4]
    IN top * 16777216 + b[3] * 65536 + b[2] * 256 + b[1]

\* State(value, name) of an int value.
State(value, name) == [name |-> name, type |-> "int", value |-> value]

\* Color(color, alpha) on a host of the given byte order: the states of the
\* wrapped option, or the exception raised. int(255 * (clamped_alpha / 100.0))
\* equals the integer quotient for every clamped_alpha in 0..100.
Color(color, alpha, byteorder) ==
    LET split_color == [i \in 1..3 |-> SubSeq(color, 2 * i - 1, 2 * i)]
        min_alpha == IF alpha < 100 THEN alpha ELSE 100
        clamped_alpha == IF min_alpha > 0 THEN min_alpha ELSE 0
        hex_alpha == (255 * clamped_alpha) \div 100
        final_color_string ==
            split_color[3] \o split_color[2] \o split_color[1]
                \o HexFormat(hex_alpha)
    IN IF Len(final_color_string) % 2 = 1
       THEN [result |-> "ValueError", states |-> <<>>]
       ELSE [result |-> "ok",
             states |-> <<State(unpack_i(fromhex(final_color_string), byteorder),
                                "color")>>]

----------------------------------------------------------------------------
(* flatlaf.py *)

\* str.split("="): the pieces of a line between its "=" characters.
RECURSIVE Split(_)
Split(line) ==
    LET RECURSIVE FirstEQ(_)
        FirstEQ(k) == IF k > Len(line) THEN 0
                      ELSE IF line[k] = EQ THEN k ELSE FirstEQ(k + 1)
        n == FirstEQ(1)
    IN IF n = 0 THEN <<line>>
       ELSE <<SubSeq(line, 1, n - 1)>> \o Split(SubSeq(line, n + 1, Len(line)))

\* "=".join(parts)
RECURSIVE Join(_)
Join(parts) ==
    IF Len(parts) = 1 THEN parts[1]
    ELSE parts[1] \o <<EQ>> \o Join(Tail(parts))

\* What the loop of FlatLaf.install prints for one line of launch.properties.
InstallLine(line) ==
    IF ~HasFlatlaf(line) THEN line
    ELSE LET split_line == Split(line) IN
         Join(IF Len(split_line) = 3
              THEN [split_line EXCEPT ![3] = <<theme>>]
              ELSE split_line)

RECURSIVE InstallLines(_)
InstallLines(ls) ==
    IF ls = <<>> THEN <<>> ELSE InstallLine(Head(ls)) \o InstallLines(Tail(ls))

\* What the loop of FlatLaf.remove prints for one line of launch.properties.
RemoveLine(line) ==
    IF HasFlatlaf(line) /\ Len(Split(line)) = 3 THEN <<>> ELSE line

RECURSIVE RemoveLines(_)
RemoveLines(ls) ==
    IF ls = <<>> THEN <<>> ELSE RemoveLine(Head(ls)) \o RemoveLines(Tail(ls))

\* One download of FlatLaf.install: a jar already on disk is kept; otherwise
\* the fetch fails ("URLError", no file is written) or writes a jar whose
\* sha512 is the published one ("good") or is not ("bad").
Download(jar, fetched) == IF jar = "absent" THEN fetched ELSE jar

\* FlatLaf.verify_jars: "URLError" when a checksum cannot be fetched,
\* otherwise whether both hashes match.
verify_jars(js, net) ==
    IF net.sum1 = "URLError" THEN "URLError"
    ELSE IF js.flatlaf # "good" THEN "False"
    ELSE IF net.sum2 = "URLError" THEN "URLError"
    ELSE IF js.themes # "good" THEN "False"
    ELSE "True"

\* The part of FlatLaf.install after the assert: FileInput(inplace=True,
\* backup=".bak") unlinks launch.properties.bak and renames launch.properties
\* onto it, the loop writes the new launch.properties, and the VM argument
\* is appended when no line named flatlaf.
PatchLaunch(fs) ==
    IF ~Exists(fs.launch)
    THEN Outcome([fs EXCEPT !.launchBak = NoFile], "FileNotFoundError", {}, {})
    ELSE LET ls == Lines(Content(fs.launch))
             flatlaf_set == \E k \in 1..Len(ls) : HasFlatlaf(ls[k])
             written == InstallLines(ls)
             final == IF flatlaf_set THEN written
                      ELSE written \o <<NL, VMARGS, EQ, Dswing, EQ, theme>>
         IN Outcome([fs EXCEPT !.launchBak = fs.launch, !.launch = File(final)],
                    "ok", {}, {"launch.properties"})

FlatLaf_install(fs, net) ==
    LET j1 == Download(fs.jars.flatlaf, net.jar1) IN
    IF j1 = "URLError" THEN Outcome(fs, "URLError", {}, {})
    ELSE LET fs1 == [fs EXCEPT !.jars.flatlaf = j1]
             j2 == Download(fs.jars.themes, net.jar2) IN
    IF j2 = "URLError" THEN Outcome(fs1, "URLError", {}, {})
    ELSE LET fs2 == [fs1 EXCEPT !.jars.themes = j2]
             verified == verify_jars(fs2.jars, net) IN
    IF verified = "URLError" THEN Outcome(fs2, "URLError", {}, {})
    ELSE IF verified = "False" THEN Outcome(fs2, "AssertionError", {}, {})
    ELSE PatchLaunch(fs2)

FlatLaf_remove(fs) ==
    LET warned == {j \in {"flatlaf", "themes"} : fs.jars[j] = "absent"}
        fs1 == [fs EXCEPT !.jars = [flatlaf |-> "absent", themes |-> "absent"]]
    IN IF ~Exists(fs.launch)
       THEN Outcome([fs1 EXCEPT !.launchBak = NoFile], "FileNotFoundError",
                    warned, {})
       ELSE Outcome([fs1 EXCEPT !.launchBak = fs.launch,
                                !.launch = File(RemoveLines(Lines(Content(fs.launch))))],
                    "ok", warned, {"launch.properties"})

----------------------------------------------------------------------------
(* install.py *)

\* main: running is what is_ghidra_running answers, found whether
\* get_ghidra_install_path finds the installation. An exception of
\* FlatLaf.install or install_dark_preferences is caught and logged; sys.exit
\* ends the run.
\* main patching the preferences before it installs FlatLaf.
main_preferences_first(fs, running, found, net) ==
    IF running \/ ~found THEN Outcome(fs, "exit", {}, {})
    ELSE LET pref == install_dark_preferences(fs) IN
         IF pref.result # "ok"
         THEN [pref EXCEPT !.called = <<"install_dark_preferences">>]
         ELSE LET flat == FlatLaf_install(pref.fs, net) IN
              [flat EXCEPT !.copied = flat.copied \cup pref.copied,
                           !.called = <<"install_dark_preferences",
                                        "FlatLaf.install">>]

main(fs, running, found, net) ==
    IF running \/ ~found THEN Outcome(fs, "exit", {}, {})
    ELSE LET flat == FlatLaf_install(fs, net) IN
         IF flat.result # "ok"
         THEN [flat EXCEPT !.called = <<"FlatLaf.install">>]
         ELSE LET pref == install_dark_preferences(flat.fs) IN
              [pref EXCEPT !.copied = flat.copied \cup pref.copied,
                           !.called = <<"FlatLaf.install",
                                        "install_dark_preferences">>]

----------------------------------------------------------------------------
(* One step: run an operation on the current files and log it *)

Entry(op, before, out) ==
    [op |-> op, result |-> out.result, before |-> before,
     warned |-> out.warned, copied |-> out.copied, called |-> out.called]

Run(op, out) ==
    /\ Len(trace) < MaxOps
    /\ prefs' = out.fs.prefs
    /\ prefsBak' = out.fs.prefsBak
    /\ tools' = out.fs.tools
    /\ baks' = out.fs.baks
    /\ launch' = out.fs.launch
    /\ launchBak' = out.fs.launchBak
    /\ jars' = out.fs.jars
    /\ trace' = Append(trace, Entry(op, FS, out))

InstallDarkPreferences == Run("install_dark_preferences", install_dark_preferences(FS))

RemoveDarkPreferences == Run("remove_dark_preferences", remove_dark_preferences(FS))

Net == [jar1 : {"good", "bad", "URLError"}, jar2 : {"good", "bad", "URLError"},
        sum1 : {"ok", "URLError"}, sum2 : {"ok", "URLError"}]

FlatLafInstall == \E net \in Net : Run("FlatLaf.install", FlatLaf_install(FS, net))

FlatLafRemove == Run("FlatLaf.remove", FlatLaf_remove(FS))

\* The network is consulted only by a run that gets as far as FlatLaf.install.
NoNet == [jar1 |-> "URLError", jar2 |-> "URLError",
          sum1 |-> "URLError", sum2 |-> "URLError"]

Main ==
    \E running \in BOOLEAN, found \in BOOLEAN :
        \E net \in (IF running \/ ~found THEN {NoNet} ELSE Net) :
            Run("main", main(FS, running, found, net))

----------------------------------------------------------------------------
(* The configuration directory on its own: any preferences file of up to  *)
(* MaxLen tokens or none, and for every tool any combination of a present *)
(* or absent file and a present or absent backup.                         *)

PrefTokens == {Metal, System, NL}
PrefTexts == UNION {[1..n -> PrefTokens] : n \in 0..MaxLen}

DefaultLaunch == File(<<"x", EQ, "y", NL>>)
NoJars == [flatlaf |-> "absent", themes |-> "absent"]

InitConfig ==
    /\ prefs \in {NoFile} \cup {File(t) : t \in PrefTexts}
    /\ prefsBak = NoFile
    /\ tools \in [TcdNames -> {NoFile, File(DocA)}]
    /\ baks \in [TcdNames -> {NoFile, File(DocB)}]
    /\ launch = DefaultLaunch
    /\ launchBak = NoFile
    /\ jars = NoJars
    /\ trace = <<>>

NextConfig == InstallDarkPreferences \/ RemoveDarkPreferences

SpecConfig == InitConfig /\ [][NextConfig]_vars

----------------------------------------------------------------------------
(* The installation as a whole: launch.properties of up to MaxLines lines *)
(* or none, a leftover launch.properties.bak or none, each jar absent, on  *)
(* disk and intact, or on disk and corrupt (InitJars).                     *)

LaunchLineBodies ==
    { <<"x", EQ, "y">>,
      <<VMARGS, EQ, Dswing, EQ, OtherLaf>>,
      <<"x", EQ, OtherLaf>> }

\* The texts of exactly n lines; only the last may lack its newline.
RECURSIVE TextsOf(_)
TextsOf(n) ==
    IF n = 0 THEN {<<>>}
    ELSE {b \o <<NL>> \o t : b \in LaunchLineBodies, t \in TextsOf(n - 1)}
         \cup (IF n = 1 THEN {b : b \in LaunchLineBodies} ELSE {})

LaunchTexts == UNION {TextsOf(n) : n \in 0..MaxLines}

\* Neither jar downloaded yet, both intact, or one of them corrupt.
InitJars ==
    { [flatlaf |-> "absent", themes |-> "absent"],
      [flatlaf |-> "good", themes |-> "good"],
      [flatlaf |-> "bad", themes |-> "good"],
      [flatlaf |-> "good", themes |-> "bad"] }

Init ==
    /\ prefs \in {NoFile, File(<<Metal, NL>>)}
    /\ prefsBak = NoFile
    /\ tools \in {[tcd \in TcdNames |-> File(DocA)],
                 [tcd \in TcdNames |-> IF tcd = "_debugger.tcd" THEN NoFile
                                       ELSE File(DocA)]}
    /\ baks = [tcd \in TcdNames |-> NoFile]
    /\ launch \in {NoFile} \cup {File(t) : t \in LaunchTexts}
    /\ launchBak \in {NoFile, File(<<"old", NL>>)}
    /\ jars \in InitJars
    /\ trace = <<>>

Next ==
    \/ Main
    \/ FlatLafInstall
    \/ FlatLafRemove
    \/ RemoveDarkPreferences

Spec == Init /\ [][Next]_vars

----------------------------------------------------------------------------
(* The color encoder on its own: Color objects built from sample colors,  *)
(* every alpha from AlphaMargin below 0 to AlphaMargin above 100, on a     *)
(* host of either byte order. The files stay as they are.                  *)

\* FF0000, 282A36, 44475A and 000000.
SampleColors ==
    { <<15, 15, 0, 0, 0, 0>>, <<2, 8, 2, 10, 3, 6>>,
      <<4, 4, 4, 7, 5, 10>>, <<0, 0, 0, 0, 0, 0>> }
Alphas == (0 - AlphaMargin)..(100 + AlphaMargin)
ByteOrders == {"little", "big"}

NewColor ==
    \E color \in SampleColors, alpha \in Alphas, byteorder \in ByteOrders :
        /\ Len(trace) < MaxColors
        /\ LET made == Color(color, alpha, byteorder) IN
           trace' = Append(trace,
                        [op |-> "Color", color |-> color, alpha |-> alpha,
                         byteorder |-> byteorder, result |-> made.result,
                         states |-> made.states])
        /\ UNCHANGED <<prefs, prefsBak, tools, baks, launch, launchBak, jars>>

InitColor ==
    /\ prefs = File(<<Metal, NL>>)
    /\ prefsBak = NoFile
    /\ tools = [tcd \in TcdNames |-> File(DocA)]
    /\ baks = [tcd \in TcdNames |-> NoFile]
    /\ launch = DefaultLaunch
    /\ launchBak = NoFile
    /\ jars = NoJars
    /\ trace = <<>>

NextColor == NewColor

SpecColor == InitColor /\ [][NextColor]_vars

----------------------------------------------------------------------------
(* Reading the trace *)

Ops == 1..Len(trace)

\* The files after the k-th operation.
After(k) == IF k < Len(trace) THEN trace[k + 1].before ELSE FS

InstallOps == {"main", "install_dark_preferences", "FlatLaf.install"}

IsInstallPrefs(k) == trace[k].op = "install_dark_preferences"
IsRemovePrefs(k) == trace[k].op = "remove_dark_preferences"

\* install_dark_preferences ran in the k-th operation, directly or from main.
RanInstallPrefs(k) ==
    \/ IsInstallPrefs(k)
    \/ trace[k].op = "main" /\ trace[k].called =
                                   <<"FlatLaf.install", "install_dark_preferences">>

HasSystemLine(text) == \E n \in 1..Len(Lines(text)) : HasSystem(Lines(text)[n])
HasFlatlafLine(text) == \E n \in 1..Len(Lines(text)) : HasFlatlaf(Lines(text)[n])

----------------------------------------------------------------------------
(* C1 *)

\* C1: over any run of consecutive installs, every .bak file the first of
\* them created (a tool file's .bak, launch.properties.bak) still holds the
\* content its original had before that first install.
C1_BackupsSurviveReinstall ==
    \A j \in Ops : \A k \in j..Len(trace) :
        (\A m \in j..k : trace[m].op \in InstallOps) =>
            /\ \A tcd \in trace[j].copied \cap TcdNames :
                   After(k).baks[tcd] = trace[j].before.tools[tcd]
            /\ "launch.properties" \in trace[j].copied =>
                   After(k).launchBak = trace[j].before.launch

----------------------------------------------------------------------------
(* C2 *)

\* C2: install_dark_preferences followed by remove_dark_preferences leaves
\* every tool file that existed before the install with its pre-install
\* content, and leaves no .bak of it behind.
C2_InstallRemoveRestoresTools ==
    \A k \in Ops :
        (k < Len(trace) /\ IsInstallPrefs(k) /\ trace[k].result # "exit"
            /\ IsRemovePrefs(k + 1)) =>
            \A tcd \in TcdNames :
                Exists(trace[k].before.tools[tcd]) =>
                    /\ After(k + 1).tools[tcd] = trace[k].before.tools[tcd]
                    /\ ~Exists(After(k + 1).baks[tcd])

----------------------------------------------------------------------------
(* C3 *)

\* C3: install_dark_preferences followed by remove_dark_preferences leaves
\* the preferences file equal to its pre-install content, whatever that was.
C3_InstallRemoveRestoresPreferences ==
    \A k \in Ops :
        (k < Len(trace) /\ IsInstallPrefs(k) /\ trace[k].result # "exit"
            /\ IsRemovePrefs(k + 1)) =>
            After(k + 1).prefs = trace[k].before.prefs

----------------------------------------------------------------------------
(* C4 *)

OnlyMetal == File(<<Metal, NL>>)

----------------------------------------------------------------------------
(* C5 *)

\* C5: with the preferences file present, install_dark_preferences does not
\* raise whichever tool files are absent: every present tool file is backed
\* up and patched, every absent one only gets a warning.
C5_MissingToolsOnlyWarn ==
    \A k \in Ops :
        (IsInstallPrefs(k) /\ Exists(trace[k].before.prefs)) =>
            /\ trace[k].result = "ok"
            /\ \A tcd \in TcdNames :
                   LET old == trace[k].before.tools[tcd] IN
                   IF Exists(old)
                   THEN /\ After(k).baks[tcd] = old
                        /\ After(k).tools[tcd] =
                               File(TCDBrowser_update(Content(old)))
                   ELSE /\ tcd \in trace[k].warned
                        /\ After(k).tools[tcd] = NoFile

----------------------------------------------------------------------------
(* C6 *)

\* C6: without a preferences file, install_dark_preferences and
\* remove_dark_preferences exit and leave every file as it was.
C6_NoPreferencesAbortsUntouched ==
    \A k \in Ops :
        ((IsInstallPrefs(k) \/ IsRemovePrefs(k)) /\ ~Exists(trace[k].before.prefs))
            => /\ trace[k].result = "exit"
               /\ After(k) = trace[k].before

\* Both operations met a directory without preferences in which there was a
\* tool file to patch and a backup to restore.
C6_Witness ==
    /\ \E k \in Ops :
           /\ IsInstallPrefs(k)
           /\ ~Exists(trace[k].before.prefs)
           /\ \E tcd \in TcdNames : Exists(trace[k].before.tools[tcd])
    /\ \E k \in Ops :
           /\ IsRemovePrefs(k)
           /\ ~Exists(trace[k].before.prefs)
           /\ \E tcd \in TcdNames :
                  Exists(trace[k].before.tools[tcd]) /\ Exists(trace[k].before.baks[tcd])

----------------------------------------------------------------------------
(* C7 *)

\* C7: remove_dark_preferences restores every tool file whose .bak exists,
\* also when the tool file itself is absent: it does not fail, the backup
\* ends up on the original path, and the rest of TCD_LIST is processed.
C7_RestoreToleratesAbsentOriginal ==
    \A k \in Ops :
        (IsRemovePrefs(k) /\ Exists(trace[k].before.prefs)) =>
            /\ trace[k].result = "ok"
            /\ \A tcd \in TcdNames :
                   Exists(trace[k].before.baks[tcd]) =>
                       /\ After(k).tools[tcd] = trace[k].before.baks[tcd]
                       /\ ~Exists(After(k).baks[tcd])

----------------------------------------------------------------------------
(* C8 *)

Unbacked(k, tcd) ==
    Exists(trace[k].before.tools[tcd]) /\ ~Exists(trace[k].before.baks[tcd])

\* C8: remove_dark_preferences leaves a tool file that has no .bak as it is
\* (same content, no .bak appears), and a run that completes has warned
\* about it.
C8_NoBackupLeftUntouched ==
    \A k \in Ops :
        IsRemovePrefs(k) =>
            \A tcd \in TcdNames :
                Unbacked(k, tcd) =>
                    /\ After(k).tools[tcd] = trace[k].before.tools[tcd]
                    /\ ~Exists(After(k).baks[tcd])
                    /\ trace[k].result = "ok" => tcd \in trace[k].warned

\* A remove ran to the end over a directory with a tool file without backup
\* and another tool file it did restore.
C8_Witness ==
    \E k \in Ops :
        /\ IsRemovePrefs(k)
        /\ trace[k].result = "ok"
        /\ \E tcd \in TcdNames : Unbacked(k, tcd) /\ tcd \in trace[k].warned
        /\ trace[k].copied # {}

----------------------------------------------------------------------------
(* C9 *)

FetchFailed(k) == trace[k].result \in {"URLError", "AssertionError"}

\* C9: a run of main in which a download or a checksum fetch fails, or a
\* checksum does not match, never calls install_dark_preferences and leaves
\* launch.properties, preferences and the tool files unmodified.
C9_FetchBeforeConfiguration ==
    \A k \in Ops :
        (trace[k].op = "main" /\ FetchFailed(k)) =>
            /\ trace[k].called = <<"FlatLaf.install">>
            /\ After(k).launch = trace[k].before.launch
            /\ After(k).prefs = trace[k].before.prefs
            /\ After(k).tools = trace[k].before.tools

\* main failed on the network and on the checksum, each time over files it
\* would otherwise have changed.
C9_Witness ==
    /\ \E k \in Ops :
           /\ trace[k].op = "main" /\ trace[k].result = "URLError"
           /\ Exists(trace[k].before.launch) /\ Exists(trace[k].before.prefs)
    /\ \E k \in Ops :
           /\ trace[k].op = "main" /\ trace[k].result = "AssertionError"
           /\ Exists(trace[k].before.launch) /\ Exists(trace[k].before.prefs)

----------------------------------------------------------------------------
(* C10 *)

\* The texts the claim allows after appending line to text: a newline goes
\* in between exactly when text has a last line without one. (Of an empty
\* text the claim's two halves disagree; both readings are allowed.)
Appended(text, line) ==
    IF text = <<>> THEN {line, <<NL>> \o line}
    ELSE IF EndsWithNL(text) THEN {text \o line}
    ELSE {text \o <<NL>> \o line}

VmargsLine == <<VMARGS, EQ, Dswing, EQ, theme>>

\* C10: when install appends its settings line (no line of the file holds
\* the marker), the file becomes the original, a newline only if the
\* original lacked a final one, and the appended line.
C10_AppendKeepsLinesApart ==
    \A k \in Ops :
        /\ (RanInstallPrefs(k) /\ Exists(trace[k].before.prefs)
               /\ ~HasSystemLine(Content(trace[k].before.prefs))) =>
               \E t \in Appended(Content(trace[k].before.prefs), <<System>>) :
                   After(k).prefs \in {File(t), File(t \o <<NL>>)}
        /\ (trace[k].op \in {"main", "FlatLaf.install"} /\ trace[k].result # "exit"
               /\ "launch.properties" \in trace[k].copied
               /\ ~HasFlatlafLine(Content(trace[k].before.launch))) =>
               \E t \in Appended(Content(trace[k].before.launch), VmargsLine) :
                   After(k).launch \in {File(t), File(t \o <<NL>>)}

----------------------------------------------------------------------------
(* C11 *)

\* The lines of ls that do not contain flatlaf, in order.
RECURSIVE NonFlatlaf(_)
NonFlatlaf(ls) ==
    IF ls = <<>> THEN <<>>
    ELSE (IF HasFlatlaf(Head(ls)) THEN <<>> ELSE <<Head(ls)>>)
         \o NonFlatlaf(Tail(ls))

\* The k-th operation rewrote the lines of launch.properties: FlatLaf.remove,
\* or FlatLaf.install (alone or from main) over a file with a flatlaf line.
RewroteLaunch(k) ==
    /\ "launch.properties" \in trace[k].copied
    /\ \/ trace[k].op = "FlatLaf.remove"
       \/ /\ trace[k].op \in {"FlatLaf.install", "main"}
          /\ HasFlatlafLine(Content(trace[k].before.launch))

\* C11: when FlatLaf.install or FlatLaf.remove rewrites launch.properties,
\* the lines without flatlaf come out unchanged and in order, and a line
\* FlatLaf.install rewrites keeps its newline, so the file has as many lines
\* as before and every line that ended in a newline still does.
C11_RewriteKeepsOtherLines ==
    \A k \in Ops :
        RewroteLaunch(k) =>
            LET old == Lines(Content(trace[k].before.launch))
                new == Lines(Content(After(k).launch))
            IN /\ NonFlatlaf(new) = NonFlatlaf(old)
               /\ trace[k].op # "FlatLaf.remove" =>
                      /\ Len(new) = Len(old)
                      /\ \A n \in 1..Len(old) :
                             EndsWithNL(old[n]) => EndsWithNL(new[n])

----------------------------------------------------------------------------
(* C13 *)

\* C13: FlatLaf.install followed by FlatLaf.remove over a launch.properties
\* without a flatlaf line leaves it identical to its pre-install content, and
\* launch.properties.bak does not hold the dark-theme content install wrote.
C13_FlatLafInstallRemoveRestoresLaunch ==
    \A k \in Ops :
        (/\ k < Len(trace)
         /\ trace[k].op = "FlatLaf.install" /\ trace[k].result = "ok"
         /\ trace[k + 1].op = "FlatLaf.remove"
         /\ ~HasFlatlafLine(Content(trace[k].before.launch))) =>
            /\ After(k + 1).launch = trace[k].before.launch
            /\ After(k + 1).launchBak # After(k).launch

----------------------------------------------------------------------------
(* C12 *)

\* The integers nearest to num / den (two of them when it lies halfway).
Rounded(num, den) ==
    {r \in 0..255 : 2 * (IF num >= r * den THEN num - r * den ELSE r * den - num)
                        <= den}

Clamp(alpha) == IF alpha < 0 THEN 0 ELSE IF alpha > 100 THEN 100 ELSE alpha

Byte(color, i) == 16 * color[2 * i - 1] + color[2 * i]

\* C12: for every color RRGGBB and every alpha, Color succeeds and yields one
\* int state named color whose value is the signed 32-bit integer read from
\* the bytes BB, GG, RR, AA, with AA = round(255 * clamp(alpha, 0, 100) / 100).
C12_ColorPacksBytes ==
    \A k \in Ops :
        trace[k].op = "Color" =>
            /\ trace[k].result = "ok"
            /\ \E aa \in Rounded(255 * Clamp(trace[k].alpha), 100) :
                   trace[k].states =
                       <<[name |-> "color", type |-> "int",
                          value |-> unpack_i(<<Byte(trace[k].color, 3),
                                               Byte(trace[k].color, 2),
                                               Byte(trace[k].color, 1), aa>>,
                                             trace[k].byteorder)]>>

====
